---- MODULE Spec2Model ----
(***************************************************************************)
(* Model of Scripting::ScriptManager (src/src/ScriptManager.h): the module *)
(* registry loaded_modules_, the function cache module_function_cache_,    *)
(* and the operations load_script, reload_script, load_scripts and         *)
(* dispatch_event, run under the embedded Python runtime's GIL.            *)
(*                                                                         *)
(* Every operation is a frame on a call stack.  A frame is entered by a    *)
(* *_call action (argument evaluation and the gil_scoped_acquire at the    *)
(* top of the function), advanced by the actions that translate the body,  *)
(* and left by a *_return action (destructor of the gil_scoped_acquire).   *)
(*                                                                         *)
(* Spec and SpecTrace are the system driven by the host alone, with        *)
(* handlers that return or raise.  SpecClean keeps the runs of Spec in     *)
(* which nothing fails.  SpecReentrant and SpecRehash add handlers that    *)
(* call back into the ScriptManager while their dispatch_event is in       *)
(* progress.                                                               *)
(***************************************************************************)
EXTENDS Integers, Sequences, FiniteSets, TLC

\* ---------------------------------------------------------------- bounds
\* Number of ScriptModule objects the host creates in one run (successful
\* load_script calls).
MaxRecords == 3

\* Number of directory entries one load_scripts walk yields at most.
MaxWalk == 2

\* Calls back into the ScriptManager that the handlers of the dispatch_event
\* calls in progress have made, taken together.
MaxCalls == 1

\* Module stems that exist on disk and event names the host dispatches.
Names == {"a", "b"}
Events == {"on_tick", "on_join"}

\* The stems on disk in a run where a handler loads one the host never
\* loads.
CallbackNames == Names \cup {"c"}

VARIABLES
  loaded_modules_,         \* name -> ScriptModule        (line 287)
  iter_order,              \* iteration order of the unordered_map loaded_modules_
  module_function_cache_,  \* event name -> vector of ScriptModule (line 290)
  sys_modules,             \* the runtime: imported module name -> attributes it exposes
  gil,                     \* nesting depth of the execution lock held by the host thread
  stack,                   \* call stack of ScriptManager operations in progress
  unlocked_calls,          \* runtime calls issued so far while the lock was not held
  last_op                  \* summary of the operation that returned to the host last

vars == <<loaded_modules_, iter_order, module_function_cache_, sys_modules,
          gil, stack, unlocked_calls, last_op>>

\* ------------------------------------------------------------- helpers
Range(s) == {s[i] : i \in 1..Len(s)}

RECURSIVE Perms(_)
Perms(S) ==
  IF S = {} THEN {<<>>}
  ELSE UNION {{<<x>> \o p : p \in Perms(S \ {x})} : x \in S}

\* Names of the records of a vector, in order.
NamesOf(modules) == [i \in 1..Len(modules) |-> modules[i].name]

\* std::unordered_map::operator[] assignment: m[k] = v.
MapPut(m, k, v) == [x \in (DOMAIN m) \cup {k} |-> IF x = k THEN v ELSE m[x]]

\* ScriptModule built with the file name instead of the stem as its name.
ScriptModuleMisnamed(n, serial) ==
  [name |-> n \o ".py", serial |-> serial, module |-> n]

\* A ScriptModule object (line 72).  name is ScriptModule::name(), module is
\* script_module(): the handle of the runtime's module object, which the
\* runtime keeps one of per imported name; serial tells apart the objects
\* std::make_shared creates for the same name.
ScriptModule(n, serial) == [name |-> n, serial |-> serial, module |-> n]

\* ------------------------------------------------------- runtime bridge
\* An entry point that forgets to take the lock.
gil_not_acquired(g) == g

\* py::gil_scoped_acquire: constructor and destructor; acquisitions nest.
gil_scoped_acquire(g) == g + 1

\* An exit path that leaves without giving the lock back.
gil_not_released(g) == g

gil_scoped_release(g) == g - 1

\* py::hasattr(*module, name) on the module object of a record.
hasattr(mods, script, function_name) ==
  script.module \in DOMAIN mods /\ function_name \in mods[script.module]

\* A call into the runtime (import, reload, hasattr, attr(...)(), PyErr_*)
\* is recorded with whether the lock was held when it was issued.
RuntimeCall(kind) == IF gil > 0 THEN {} ELSE {kind}

\* ------------------------------------------------------------ frames
\* The activation of one operation: its argument, its position (pc), how its
\* body ended (outcome), and its locals.  For dispatch_event: hit (line 199),
\* the elements its loop has yet to visit (todo), valid_modules (line 233),
\* the copy of the cached vector (snapshot, line 200), and what the call has
\* done so far: the records its loop visited, the handlers it invoked, those
\* that raised, the traversals of loaded_modules_ it started.  For
\* load_scripts: the entries the walk has yet to yield (left).  logs counts
\* the logger_.log_message calls of the activation, reloads its calls of
\* module_::reload (line 131), script the record whose handler is running
\* (lines 203 / 237), calls the calls its handlers have made back into the
\* ScriptManager.
NoScript == [name |-> "", serial |-> 0, module |-> ""]

Frame(op, arg) ==
  [op |-> op, arg |-> arg, pc |-> "body", outcome |-> "none",
   hit |-> FALSE, todo |-> <<>>, left |-> 0, valid_modules |-> <<>>,
   invoked |-> <<>>, raised |-> {},
   snapshot |-> <<>>, visited |-> <<>>, traversals |-> 0, logs |-> 0,
   reloads |-> 0, script |-> NoScript, calls |-> 0]

Top == stack[Len(stack)]
SetTop(f) == [stack EXCEPT ![Len(stack)] = f]
Pop == SubSeq(stack, 1, Len(stack) - 1)

\* What the host remembers of the call that returned last: for a
\* dispatch_event its event, the handlers it invoked in order and those that
\* raised; for any other operation only that it was not a dispatch.
NoOp == [op |-> "none", arg |-> "", invoked |-> <<>>, raised |-> {}]
Untraced == [op |-> "untraced", arg |-> "", invoked |-> <<>>, raised |-> {}]
Summary(f) ==
  IF f.op = "dispatch_event"
  THEN [op |-> f.op, arg |-> f.arg, invoked |-> f.invoked, raised |-> f.raised]
  ELSE NoOp

\* The host thread is between two calls of the public interface.
Idle == stack = <<>>

\* last_op once frame f returns: only a call made by the host itself is
\* remembered, and only in a run that keeps the trace.
Remember(f) ==
  IF Len(stack) = 1 /\ last_op # Untraced THEN Summary(f) ELSE last_op

\* ------------------------------------------------------- function cache
\* An add loop that pushes nothing.
add_module_never(cache, mods, script) == cache

\* An add loop that pushes the record into every entry, asking nothing.
add_module_unchecked(cache, mods, script) ==
  [e \in DOMAIN cache |-> Append(cache[e], script)]

\* Lines 76-80 and 134-138: for every key of the cache, push_back(script)
\* when the module has the attribute.
add_module_to_known_events(cache, mods, script) ==
  [e \in DOMAIN cache |->
     IF hasattr(mods, script, e) THEN Append(cache[e], script) ELSE cache[e]]

\* Lines 121-127: std::find_if by name, then erase of the first match.
RECURSIVE EraseFirst(_, _)
EraseFirst(modules, n) ==
  IF modules = <<>> THEN <<>>
  ELSE IF Head(modules).name = n THEN Tail(modules)
  ELSE <<Head(modules)>> \o EraseFirst(Tail(modules), n)

\* A removal loop that also erases the entries it empties.
remove_module_evicting(cache, script) ==
  [e \in {k \in DOMAIN cache : EraseFirst(cache[k], script.name) # <<>>} |->
     EraseFirst(cache[e], script.name)]

\* Lines 120-128: the removal loop over every cache entry.
remove_module(cache, script) ==
  [e \in DOMAIN cache |-> EraseFirst(cache[e], script.name)]

\* --------------------------------------------------------- load_script
\* Serial of the object the next successful load of n creates.
NextSerial(n) ==
  IF n \in DOMAIN loaded_modules_ THEN loaded_modules_[n].serial + 1 ELSE 1

\* ScriptModule objects created so far.
RECURSIVE Sum(_, _)
Sum(f, S) ==
  IF S = {} THEN 0
  ELSE LET x == CHOOSE y \in S : TRUE IN f[x] + Sum(f, S \ {x})

Created ==
  Sum([n \in DOMAIN loaded_modules_ |-> loaded_modules_[n].serial],
      DOMAIN loaded_modules_)

\* Line 73: loaded_modules_[module_name] = script.
RegistryInsert(registry, n, script) == MapPut(registry, n, script)

\* Iteration orders the unordered_map may have once it has become registry:
\* assigning to an existing key keeps the order, a new key may rehash.
OrdersAfterInsert(registry) ==
  IF DOMAIN registry = DOMAIN loaded_modules_ THEN {iter_order}
  ELSE Perms(DOMAIN registry)

\* Lines 54-61: entry of load_script(module_path); n is the stem.
load_script_enter(n) ==
  /\ Created < MaxRecords
  /\ stack' = Append(stack, Frame("load_script", n))
  /\ gil' = gil_scoped_acquire(gil)
  /\ UNCHANGED <<loaded_modules_, iter_order, module_function_cache_,
                 sys_modules, unlocked_calls, last_op>>

\* The host calls load_script.
load_script_call ==
  /\ Idle
  /\ \E n \in Names : load_script_enter(n)

\* Lines 63-83: the try block when the import succeeds.  attrs is what the
\* module object exposes after the import.
load_script_ok(n, attrs) ==
  LET mods == MapPut(sys_modules, n, attrs)
      script == ScriptModule(n, NextSerial(n))
  IN /\ sys_modules' = mods
     /\ loaded_modules_' = RegistryInsert(loaded_modules_, n, script)
     /\ iter_order' \in OrdersAfterInsert(loaded_modules_')
     /\ module_function_cache_' =
          add_module_to_known_events(module_function_cache_, mods, script)
     /\ unlocked_calls' = unlocked_calls \cup RuntimeCall("import")
                            \cup (IF DOMAIN module_function_cache_ = {} THEN {}
                                  ELSE RuntimeCall("hasattr"))
     /\ stack' = SetTop([Top EXCEPT !.pc = "return", !.outcome = "loaded",
                                     !.logs = @ + 1])

\* A load that registers the record before it imports, so that a failed
\* import leaves the record behind.
load_script_error_registered ==
  /\ unlocked_calls' = unlocked_calls \cup RuntimeCall("import")
                         \cup RuntimeCall("PyErr")
  /\ stack' = SetTop([Top EXCEPT !.pc = "return", !.outcome = "error",
                                  !.logs = @ + 1])
  /\ loaded_modules_' =
       RegistryInsert(loaded_modules_, Top.arg, ScriptModule(Top.arg, NextSerial(Top.arg)))
  /\ iter_order' \in OrdersAfterInsert(loaded_modules_')
  /\ UNCHANGED <<module_function_cache_, sys_modules>>

\* Lines 84-98: the import raised; the catch block prints and fetches the
\* error through the runtime.
load_script_error ==
  /\ unlocked_calls' = unlocked_calls \cup RuntimeCall("import")
                         \cup RuntimeCall("PyErr")
  /\ stack' = SetTop([Top EXCEPT !.pc = "return", !.outcome = "error",
                                  !.logs = @ + 1])
  /\ UNCHANGED <<loaded_modules_, iter_order, module_function_cache_, sys_modules>>

\* Lines 63-98.  An import of a name the runtime already holds returns the
\* module object it holds; otherwise the file is executed, and either
\* yields a module exposing attrs or raises (and nothing is kept).
load_script_body ==
  /\ stack # <<>> /\ Top.op = "load_script" /\ Top.pc = "body"
  /\ \/ /\ Top.arg \in DOMAIN sys_modules
        /\ load_script_ok(Top.arg, sys_modules[Top.arg])
     \/ /\ Top.arg \notin DOMAIN sys_modules
        /\ \E attrs \in SUBSET Events : load_script_ok(Top.arg, attrs)
     \/ /\ Top.arg \notin DOMAIN sys_modules
        /\ load_script_error
  /\ UNCHANGED <<gil, last_op>>

\* Line 99: scope exit, the GIL acquisition is released.
Return(op) ==
  /\ stack # <<>> /\ Top.op = op /\ Top.pc = "return"
  /\ gil' = gil_scoped_release(gil)
  /\ stack' = Pop
  /\ last_op' = Remember(Top)

load_script_return ==
  /\ Return("load_script")
  /\ UNCHANGED <<loaded_modules_, iter_order, module_function_cache_,
                 sys_modules, unlocked_calls>>

\* -------------------------------------------------------- reload_script
\* Lines 105-106: entry of reload_script(module_name).
reload_script_enter(n) ==
  /\ stack' = Append(stack, Frame("reload_script", n))
  /\ gil' = gil_scoped_acquire(gil)
  /\ UNCHANGED <<loaded_modules_, iter_order, module_function_cache_,
                 sys_modules, unlocked_calls, last_op>>

\* The host calls reload_script.
reload_script_call ==
  /\ Idle
  /\ \E n \in Names : reload_script_enter(n)

\* A lookup that logs the miss and goes on to reload what it did not find.
reload_script_not_loaded_reloads ==
  /\ Top.arg \notin DOMAIN loaded_modules_
  /\ stack' = SetTop([Top EXCEPT !.pc = "return", !.outcome = "not_loaded",
                                  !.logs = @ + 1, !.reloads = @ + 1])
  /\ UNCHANGED <<module_function_cache_, sys_modules, unlocked_calls>>

\* Lines 108-114: the name is not a key of loaded_modules_.
reload_script_not_loaded ==
  /\ Top.arg \notin DOMAIN loaded_modules_
  /\ stack' = SetTop([Top EXCEPT !.pc = "return", !.outcome = "not_loaded",
                                  !.logs = @ + 1])
  /\ UNCHANGED <<module_function_cache_, sys_modules, unlocked_calls>>

\* Lines 117-140: removal from the cache, then a reload that succeeds and
\* leaves the module object exposing attrs, then the re-adding loop.
reload_script_ok(attrs) ==
  LET script == loaded_modules_[Top.arg]
      mods == MapPut(sys_modules, Top.arg, attrs)
      cleared == remove_module(module_function_cache_, script)
  IN /\ Top.arg \in DOMAIN loaded_modules_
     /\ sys_modules' = mods
     /\ module_function_cache_' = add_module_to_known_events(cleared, mods, script)
     /\ unlocked_calls' = unlocked_calls \cup RuntimeCall("reload")
                            \cup (IF DOMAIN module_function_cache_ = {} THEN {}
                                  ELSE RuntimeCall("hasattr"))
     /\ stack' = SetTop([Top EXCEPT !.pc = "return", !.outcome = "reloaded",
                                     !.logs = @ + 1, !.reloads = @ + 1])

\* Lines 117-131 and 142-156: removal from the cache, then a reload that
\* raises part-way through the module body, which leaves the module object
\* exposing attrs; the catch block prints and fetches the error.
reload_script_error(attrs) ==
  LET script == loaded_modules_[Top.arg]
  IN /\ Top.arg \in DOMAIN loaded_modules_
     /\ sys_modules' = MapPut(sys_modules, Top.arg, attrs)
     /\ module_function_cache_' = remove_module(module_function_cache_, script)
     /\ unlocked_calls' = unlocked_calls \cup RuntimeCall("reload")
                            \cup RuntimeCall("PyErr")
     /\ stack' = SetTop([Top EXCEPT !.pc = "return", !.outcome = "error",
                                     !.logs = @ + 1, !.reloads = @ + 1])

\* Lines 108-156.
reload_script_body ==
  /\ stack # <<>> /\ Top.op = "reload_script" /\ Top.pc = "body"
  /\ \/ reload_script_not_loaded
     \/ \E attrs \in SUBSET Events : reload_script_ok(attrs)
     \/ \E attrs \in SUBSET Events : reload_script_error(attrs)
  /\ UNCHANGED <<loaded_modules_, iter_order, gil, last_op>>

\* Line 157 (and the return of line 113): scope exit.
reload_script_return ==
  /\ Return("reload_script")
  /\ UNCHANGED <<loaded_modules_, iter_order, module_function_cache_,
                 sys_modules, unlocked_calls>>

\* ------------------------------------------------------- dispatch_event
\* Lines 192-200 and 233-236: entry of dispatch_event(event_key_name), the
\* cache lookup, and on a hit the copy of the cached vector; on a miss the
\* loop runs over loaded_modules_ in its iteration order.
dispatch_event_frame(e) ==
  LET found == e \in DOMAIN module_function_cache_
  IN [Frame("dispatch_event", e) EXCEPT
        !.pc = "loop", !.hit = found,
        !.todo = IF found THEN module_function_cache_[e] ELSE iter_order,
        !.snapshot = IF found THEN module_function_cache_[e] ELSE <<>>,
        !.traversals = IF found THEN 0 ELSE 1]

dispatch_event_enter(e) ==
  /\ stack' = Append(stack, dispatch_event_frame(e))
  /\ gil' = gil_scoped_acquire(gil)
  /\ UNCHANGED <<loaded_modules_, iter_order, module_function_cache_,
                 sys_modules, unlocked_calls, last_op>>

\* The host calls dispatch_event.
dispatch_event_call ==
  /\ Idle
  /\ \E e \in Events : dispatch_event_enter(e)

\* The record one iteration of the loop works on: an element of the copied
\* vector (line 202) or the value of the map entry (line 237).
Current(f) == IF f.hit THEN Head(f.todo) ELSE loaded_modules_[Head(f.todo)]

\* Lines 205 / 242 when hasattr is false: nothing is called.
dispatch_event_skip ==
  /\ ~hasattr(sys_modules, Current(Top), Top.arg)
  /\ stack' = SetTop([Top EXCEPT !.todo = Tail(@),
                                  !.visited = Append(@, Current(Top))])

\* Lines 205-211 / 242-251: the handler is called and returns; on a miss
\* the record is then pushed onto valid_modules.
dispatch_event_invoke ==
  /\ hasattr(sys_modules, Current(Top), Top.arg)
  /\ stack' = SetTop([Top EXCEPT
        !.todo = Tail(@),
        !.visited = Append(@, Current(Top)),
        !.logs = @ + 1,
        !.invoked = Append(@, Current(Top).name),
        !.valid_modules = IF Top.hit THEN @ ELSE Append(@, Current(Top))])

\* A dispatch whose try block encloses the loop: the first handler that
\* raises ends the loop.
dispatch_event_raise_ends_loop ==
  /\ hasattr(sys_modules, Current(Top), Top.arg)
  /\ stack' = SetTop([Top EXCEPT
        !.todo = <<>>,
        !.visited = Append(@, Current(Top)),
        !.logs = @ + 2,
        !.invoked = Append(@, Current(Top).name),
        !.raised = @ \cup {Current(Top).name}])

\* Lines 209 -> 213-228 / 246 -> 253-268: the handler raises; control
\* leaves the try block at the call and the catch block logs the error.
dispatch_event_raise ==
  /\ hasattr(sys_modules, Current(Top), Top.arg)
  /\ stack' = SetTop([Top EXCEPT
        !.todo = Tail(@),
        !.visited = Append(@, Current(Top)),
        !.logs = @ + 2,
        !.invoked = Append(@, Current(Top).name),
        !.raised = @ \cup {Current(Top).name}])

\* Lines 202-229 / 236-269: one iteration of the loop.
dispatch_event_handler ==
  /\ stack # <<>> /\ Top.op = "dispatch_event" /\ Top.pc = "loop"
  /\ Top.todo # <<>>
  /\ \/ /\ dispatch_event_skip
        /\ unlocked_calls' = unlocked_calls \cup RuntimeCall("hasattr")
     \/ /\ dispatch_event_invoke
        /\ unlocked_calls' = unlocked_calls \cup RuntimeCall("hasattr")
                               \cup RuntimeCall("invoke")
     \/ /\ dispatch_event_raise
        /\ unlocked_calls' = unlocked_calls \cup RuntimeCall("hasattr")
                               \cup RuntimeCall("invoke") \cup RuntimeCall("PyErr")
  /\ UNCHANGED <<loaded_modules_, iter_order, module_function_cache_,
                 sys_modules, gil, last_op>>

\* Lines 271-275: after a miss, a non-empty valid_modules becomes the entry.
record_resolution(cache, f) ==
  IF ~f.hit /\ f.valid_modules # <<>>
  THEN MapPut(cache, f.arg, f.valid_modules)
  ELSE cache

\* Lines 229-230 / 269-276: the loop is over; the miss branch stores its
\* result.
dispatch_event_finish ==
  /\ stack # <<>> /\ Top.op = "dispatch_event" /\ Top.pc = "loop"
  /\ Top.todo = <<>>
  /\ module_function_cache_' = record_resolution(module_function_cache_, Top)
  /\ stack' = SetTop([Top EXCEPT
        !.pc = "return", !.outcome = "dispatched",
        !.logs = IF ~Top.hit /\ Top.valid_modules # <<>> THEN @ + 1 ELSE @])
  /\ UNCHANGED <<loaded_modules_, iter_order, sys_modules, gil,
                 unlocked_calls, last_op>>

\* Line 277: scope exit.
dispatch_event_return ==
  /\ Return("dispatch_event")
  /\ UNCHANGED <<loaded_modules_, iter_order, module_function_cache_,
                 sys_modules, unlocked_calls>>

\* --------------------------------------------------------- load_scripts
\* What recursive_directory_iterator yields: regular files with an
\* extension, and entries that are not regular files.
DirEntries ==
  {[stem |-> n, regular |-> TRUE, extension |-> ".py"] : n \in Names}
    \cup {[stem |-> "notes", regular |-> TRUE, extension |-> ".txt"],
          [stem |-> "pkg", regular |-> FALSE, extension |-> ""]}

\* An entry whose directory check logs and then falls into the walk.
load_scripts_call_no_return ==
  /\ Idle
  /\ \/ \E left \in 1..MaxWalk :
          stack' = <<[Frame("load_scripts", "dir") EXCEPT
                        !.pc = "loop", !.outcome = "no_directory",
                        !.logs = 1, !.left = left]>>
     \/ \E left \in 0..MaxWalk :
          stack' = <<[Frame("load_scripts", "dir") EXCEPT
                        !.pc = "loop", !.outcome = "walked", !.left = left]>>
  /\ UNCHANGED <<loaded_modules_, iter_order, module_function_cache_,
                 sys_modules, gil, unlocked_calls, last_op>>

\* Lines 163-171: entry of load_scripts(path) and the directory check.  No
\* GIL acquisition is made here.  left counts the entries the walk has yet
\* to yield.
load_scripts_call ==
  /\ Idle
  /\ \/ stack' = <<[Frame("load_scripts", "dir") EXCEPT
                      !.pc = "return", !.outcome = "no_directory",
                      !.logs = 1]>>
     \/ \E left \in 0..MaxWalk :
          stack' = <<[Frame("load_scripts", "dir") EXCEPT
                        !.pc = "loop", !.outcome = "walked", !.left = left]>>
  /\ UNCHANGED <<loaded_modules_, iter_order, module_function_cache_,
                 sys_modules, gil, unlocked_calls, last_op>>

\* Lines 173-183: the iterator yields one entry; a regular .py file is
\* handed to load_script, anything else is skipped.
load_scripts_entry ==
  /\ stack # <<>> /\ Top.op = "load_scripts" /\ Top.pc = "loop"
  /\ Top.left > 0
  /\ \E entry \in DirEntries :
       LET rest == SetTop([Top EXCEPT !.left = @ - 1])
       IN IF entry.regular /\ entry.extension = ".py"
          THEN /\ Created < MaxRecords
               /\ stack' = Append(rest, Frame("load_script", entry.stem))
               /\ gil' = gil_scoped_acquire(gil)
          ELSE /\ stack' = rest
               /\ gil' = gil
  /\ UNCHANGED <<loaded_modules_, iter_order, module_function_cache_,
                 sys_modules, unlocked_calls, last_op>>

\* Lines 170 and 184: load_scripts returns.
load_scripts_return ==
  /\ stack # <<>> /\ Top.op = "load_scripts"
  /\ Top.pc = "return" \/ (Top.pc = "loop" /\ Top.left = 0)
  /\ stack' = Pop
  /\ last_op' = Remember(Top)
  /\ UNCHANGED <<loaded_modules_, iter_order, module_function_cache_,
                 sys_modules, gil, unlocked_calls>>

\* ------------------------------------------------------------ the system
Init ==
  /\ loaded_modules_ = <<>>
  /\ iter_order = <<>>
  /\ module_function_cache_ = <<>>
  /\ sys_modules = <<>>
  /\ gil = 0
  /\ stack = <<>>
  /\ unlocked_calls = {}
  /\ last_op = Untraced

\* The same system in a run where the host keeps the trace of its last call.
InitTrace ==
  /\ loaded_modules_ = <<>>
  /\ iter_order = <<>>
  /\ module_function_cache_ = <<>>
  /\ sys_modules = <<>>
  /\ gil = 0
  /\ stack = <<>>
  /\ unlocked_calls = {}
  /\ last_op = NoOp

Next ==
  \/ load_script_call
  \/ load_script_body
  \/ load_script_return
  \/ reload_script_call
  \/ reload_script_body
  \/ reload_script_return
  \/ dispatch_event_call
  \/ dispatch_event_handler
  \/ dispatch_event_finish
  \/ dispatch_event_return
  \/ load_scripts_call
  \/ load_scripts_entry
  \/ load_scripts_return

Spec == Init /\ [][Next]_vars

SpecTrace == InitTrace /\ [][Next]_vars

\* ----------------------------------------------------------- reentrancy
\* A handler is script code: while it runs it may call load_script,
\* reload_script and dispatch_event through the free functions of lines
\* 299-326, on the thread of the dispatch_event that called it.

\* Lines 205-209 / 242-246: hasattr holds, the call is logged and the
\* handler is called; it is now running.
dispatch_event_handler_begin ==
  /\ stack # <<>> /\ Top.op = "dispatch_event" /\ Top.pc = "loop"
  /\ Top.todo # <<>>
  /\ hasattr(sys_modules, Current(Top), Top.arg)
  /\ stack' = SetTop([Top EXCEPT
        !.pc = "handler",
        !.script = Current(Top),
        !.todo = Tail(@),
        !.visited = Append(@, Current(Top)),
        !.logs = @ + 1,
        !.invoked = Append(@, Current(Top).name)])
  /\ unlocked_calls' = unlocked_calls \cup RuntimeCall("hasattr")
                         \cup RuntimeCall("invoke")
  /\ UNCHANGED <<loaded_modules_, iter_order, module_function_cache_,
                 sys_modules, gil, last_op>>

\* The activations a handler can start: lines 54-55, 105-106 and 192-200
\* reached through the free functions of lines 299-326.  A handler loads
\* stems that are not registered yet.
CallbackFrames(stems) ==
  {Frame("load_script", n) :
     n \in {m \in stems \ DOMAIN loaded_modules_ : Created < MaxRecords}}
    \cup {Frame("reload_script", n) : n \in Names}
    \cup {dispatch_event_frame(e) : e \in Events}

\* Calls made so far by the handlers of the dispatch_event calls in progress.
RECURSIVE CallsOf(_)
CallsOf(stk) == IF stk = <<>> THEN 0 ELSE Head(stk).calls + CallsOf(Tail(stk))

CallsMade == CallsOf(stack)

\* The running handler calls back into the ScriptManager; the callee
\* acquires the GIL on entry.
handler_calls(stems) ==
  /\ stack # <<>> /\ Top.op = "dispatch_event" /\ Top.pc = "handler"
  /\ CallsMade < MaxCalls
  /\ \E f \in CallbackFrames(stems) :
       stack' = Append(SetTop([Top EXCEPT !.calls = @ + 1]), f)
  /\ gil' = gil_scoped_acquire(gil)
  /\ UNCHANGED <<loaded_modules_, iter_order, module_function_cache_,
                 sys_modules, unlocked_calls, last_op>>

\* A handler calls back; the stems it loads are those the host loads.
handler_callback == handler_calls(Names)

\* A handler calls back; it may load a stem the host never loads.
handler_callback_new_stem == handler_calls(CallbackNames)

\* Elements of order that come after element n.
RECURSIVE SuffixAfter(_, _)
SuffixAfter(order, n) ==
  IF order = <<>> THEN <<>>
  ELSE IF Head(order) = n THEN Tail(order)
  ELSE SuffixAfter(Tail(order), n)

\* A hit loop that iterates the cached vector in place, by position.
LoopRestInPlace(f) ==
  IF f.hit
  THEN LET modules == module_function_cache_[f.arg]
       IN SubSeq(modules, Len(f.visited) + 1, Len(modules))
  ELSE SuffixAfter(iter_order, f.script.name)

\* What the loop has yet to visit when the handler is over.  On a hit the
\* loop runs over the copy made at line 200, which nothing else can reach.
\* On a miss it runs over loaded_modules_ itself (line 236): incrementing the
\* iterator yields what follows the current element in the map as it is
\* now, and an insertion made meanwhile may have rehashed the map.
LoopRest(f) ==
  IF f.hit THEN f.todo ELSE SuffixAfter(iter_order, f.script.name)

\* Lines 209-211 / 246-251: the handler returns; on a miss the record is
\* pushed onto valid_modules.
dispatch_event_handler_returns ==
  /\ stack' = SetTop([Top EXCEPT
        !.pc = "loop",
        !.script = NoScript,
        !.todo = LoopRest(Top),
        !.valid_modules = IF Top.hit THEN @ ELSE Append(@, Top.script)])
  /\ UNCHANGED unlocked_calls

\* Lines 213-228 / 253-268: the handler raises and the catch block logs.
dispatch_event_handler_raises ==
  /\ stack' = SetTop([Top EXCEPT
        !.pc = "loop",
        !.script = NoScript,
        !.todo = LoopRest(Top),
        !.logs = @ + 1,
        !.raised = @ \cup {Top.script.name}])
  /\ unlocked_calls' = unlocked_calls \cup RuntimeCall("PyErr")

\* The running handler is over.
dispatch_event_handler_end ==
  /\ stack # <<>> /\ Top.op = "dispatch_event" /\ Top.pc = "handler"
  /\ \/ dispatch_event_handler_returns
     \/ dispatch_event_handler_raises
  /\ UNCHANGED <<loaded_modules_, iter_order, module_function_cache_,
                 sys_modules, gil, last_op>>

\* The host loads a stem that is not registered yet.
first_load_script_call ==
  /\ Idle
  /\ \E n \in Names \ DOMAIN loaded_modules_ : load_script_enter(n)

\* The system with handlers that call back, in the runs where no stem is
\* loaded a second time.
NextReentrant ==
  \/ first_load_script_call
  \/ load_script_body
  \/ load_script_return
  \/ reload_script_call
  \/ reload_script_body
  \/ reload_script_return
  \/ dispatch_event_call
  \/ dispatch_event_handler
  \/ dispatch_event_handler_begin
  \/ handler_callback
  \/ dispatch_event_handler_end
  \/ dispatch_event_finish
  \/ dispatch_event_return

SpecReentrant == Init /\ [][NextReentrant]_vars

\* The same with a third stem on disk that only handlers load.  Such a run
\* is followed until the call in which the registry comes to hold every
\* stem: that call is the host's last.
RegistryFull == DOMAIN loaded_modules_ = CallbackNames

host_load_script == ~RegistryFull /\ first_load_script_call

host_reload_script == ~RegistryFull /\ reload_script_call

host_dispatch_event == ~RegistryFull /\ dispatch_event_call

NextRehash ==
  \/ host_load_script
  \/ load_script_body
  \/ load_script_return
  \/ host_reload_script
  \/ reload_script_body
  \/ reload_script_return
  \/ host_dispatch_event
  \/ dispatch_event_handler
  \/ dispatch_event_handler_begin
  \/ handler_callback_new_stem
  \/ dispatch_event_handler_end
  \/ dispatch_event_finish
  \/ dispatch_event_return

SpecRehash == Init /\ [][NextRehash]_vars

\* ============================================================== claims
\* Frame predicates used by the claims.
Returning(op) == stack # <<>> /\ Top.op = op /\ Top.pc = "return"
HostReturning(op) == Len(stack) = 1 /\ Returning(op)

\* Names of the records of the cache entry of event e.
CachedNames(cache, e) == Range(NamesOf(cache[e]))

\* The records of modules that expose e, in order.
Exposing(modules, e) ==
  LET Has(script) == hasattr(sys_modules, script, e)
  IN SelectSeq(modules, Has)

\* The records of modules not called n, in order.
Others(modules, n) ==
  LET NotN(script) == script.name # n
  IN SelectSeq(modules, NotN)

\* ---- C1
\* C1 (Cache-is-a-subset): in every reachable state, every record of every
\* cache entry has a name that is a key of loaded_modules_.
C1_CacheIsSubset ==
  \A e \in DOMAIN module_function_cache_ :
    CachedNames(module_function_cache_, e) \subseteq DOMAIN loaded_modules_

\* C1's case: a cache entry holds an object that the registry no longer
\* holds (its name was loaded again), so only the name ties it to the registry.
C1_Witness ==
  \E e \in DOMAIN module_function_cache_ :
    \E i \in 1..Len(module_function_cache_[e]) :
      LET script == module_function_cache_[e][i]
      IN /\ script.name \in DOMAIN loaded_modules_
         /\ loaded_modules_[script.name] # script

\* ---- C2
\* C2: in every reachable state, no two elements of one cache entry have
\* the same module name.
C2_AtMostOnce ==
  \A e \in DOMAIN module_function_cache_ :
    \A i, j \in 1..Len(module_function_cache_[e]) :
      module_function_cache_[e][i].name = module_function_cache_[e][j].name
        => i = j

\* ---- C3
\* C3 (a handler error does not poison the cache): when dispatch_event(E)
\* is about to return, every module whose handler raised during it is in
\* Cache[E]; and when the host's previous call was a dispatch_event(E) too,
\* every module whose handler raised in that call has been invoked again.
C3_RaisingHandlerStaysCached ==
  HostReturning("dispatch_event") =>
    /\ \A n \in Top.raised :
         /\ Top.arg \in DOMAIN module_function_cache_
         /\ n \in CachedNames(module_function_cache_, Top.arg)
    /\ (last_op.op = "dispatch_event" /\ last_op.arg = Top.arg)
         => last_op.raised \subseteq Range(Top.invoked)

\* ---- C4
\* C4 (stable order under no reload): when dispatch_event(E) is about to
\* return and the host's previous call was dispatch_event(E) as well, both
\* calls invoked the same handlers in the same order.
C4_StableOrder ==
  (HostReturning("dispatch_event")
     /\ last_op.op = "dispatch_event" /\ last_op.arg = Top.arg)
    => Top.invoked = last_op.invoked

\* ---- C5
\* The handlers a dispatch_event(E) call invokes when none of them stops
\* the loop: on a hit the cached records that expose E, on a miss the
\* registry's records that expose E, in iteration order.
ExpectedInvocations(f) ==
  IF f.hit
  THEN NamesOf(Exposing(module_function_cache_[f.arg], f.arg))
  ELSE NamesOf(Exposing([i \in 1..Len(iter_order) |-> loaded_modules_[iter_order[i]]],
                        f.arg))

\* C5 (isolation): when a dispatch_event(E) call in which some handler
\* raised is about to return, it has invoked the handler of every record it
\* would invoke had no handler raised.
C5_Isolation ==
  (HostReturning("dispatch_event") /\ Top.raised # {})
    => Top.invoked = ExpectedInvocations(Top)

\* C5's case: on a cache hit the first handler raised and the handler of
\* another module was invoked after it.
C5_Witness ==
  /\ HostReturning("dispatch_event")
  /\ Len(Top.invoked) >= 2
  /\ Top.invoked[1] \in Top.raised
  /\ Top.invoked[2] # Top.invoked[1]
  /\ Top.hit

\* ---- C6
\* The load_script body step that succeeds for a stem n that is loaded.
DuplicateLoadStep ==
  /\ stack # <<>> /\ Top.op = "load_script" /\ Top.pc = "body"
  /\ Top.arg \in DOMAIN loaded_modules_
  /\ stack' # <<>> /\ stack'[Len(stack')].outcome = "loaded"

\* C6 (a duplicate-name load is an overwrite): a successful load_script of
\* a loaded stem n leaves every cache entry with the content, by module name
\* and in order, that reload_script(n) leaves: n removed, then appended where
\* the module exposes the event.
C6_DuplicateLoadIsReload ==
  [][DuplicateLoadStep =>
       LET n == Top.arg
           reloaded == add_module_to_known_events(
                         remove_module(module_function_cache_, loaded_modules_[n]),
                         sys_modules', loaded_modules_[n])
       IN /\ DOMAIN module_function_cache_' = DOMAIN reloaded
          /\ \A e \in DOMAIN reloaded :
               NamesOf(module_function_cache_'[e]) = NamesOf(reloaded[e])]_vars

\* ---- C7
\* The reload_script body step in which the runtime's reload fails.
FailedReloadStep ==
  /\ stack # <<>> /\ Top.op = "reload_script" /\ Top.pc = "body"
  /\ stack' # <<>> /\ stack'[Len(stack')].outcome = "error"

\* C7 (a reload failure retains the record but clears it from the cache):
\* after a failed reload_script(n) the registry is what it was, and no cache
\* entry holds a record named n.
C7_FailedReloadClearsCache ==
  [][FailedReloadStep =>
       /\ loaded_modules_' = loaded_modules_
       /\ \A e \in DOMAIN module_function_cache_' :
            Top.arg \notin CachedNames(module_function_cache_', e)]_vars

\* ---- C8
\* The reload_script body step in which the runtime's reload succeeds.
ReloadedStep ==
  /\ stack # <<>> /\ Top.op = "reload_script" /\ Top.pc = "body"
  /\ stack' # <<>> /\ stack'[Len(stack')].outcome = "reloaded"

\* C8 (a successful reload moves the record to the tail): after a
\* successful reload_script(n) the cache has the keys it had; for each key E,
\* n is in Cache[E] exactly if the reloaded module exposes E, and is then the
\* last element; the records of other names are those of before, in order.
C8_ReloadMovesToTail ==
  [][ReloadedStep =>
       LET n == Top.arg
           script == loaded_modules_[n]
       IN /\ DOMAIN module_function_cache_' = DOMAIN module_function_cache_
          /\ \A e \in DOMAIN module_function_cache_ :
               LET after == module_function_cache_'[e]
               IN /\ n \in CachedNames(module_function_cache_', e)
                       <=> hasattr(sys_modules', script, e)
                  /\ hasattr(sys_modules', script, e)
                       => after[Len(after)].name = n
                  /\ Others(after, n) = Others(module_function_cache_[e], n)]_vars

\* ---- C9
\* A step of a load_script call whose import fails: the body step that
\* ends in the catch block, and the return that follows it.
FailedLoadStep ==
  /\ stack # <<>> /\ Top.op = "load_script"
  /\ \/ Top.outcome = "error"
     \/ Top.pc = "body" /\ stack' # <<>> /\ stack'[Len(stack')].outcome = "error"

\* C9 (a failed load leaves the state unchanged): no step of a load_script
\* call whose import fails changes the registry or the cache, and the call
\* returns (the frame is popped by the step after the catch block).
C9_FailedLoadUnchanged ==
  [][FailedLoadStep =>
       /\ loaded_modules_' = loaded_modules_
       /\ module_function_cache_' = module_function_cache_
       /\ (Top.outcome = "error" => stack' = Pop)]_vars

\* C9's case: an import has failed while the registry and the cache are
\* not empty.
C9_Witness ==
  /\ Returning("load_script") /\ Top.outcome = "error"
  /\ loaded_modules_ # <<>>
  /\ \E e \in DOMAIN module_function_cache_ : module_function_cache_[e] # <<>>

\* ---- C10
\* C10 (lock held during runtime calls): no import, reload, hasattr,
\* handler invocation or error fetch has been issued while the lock was not
\* held.
C10_LockHeld == unlocked_calls = {}

\* C10's case: a handler has raised within a dispatch, so hasattr, the
\* invocation and the error path have run, with the lock held.
C10_Witness ==
  /\ stack # <<>> /\ Top.op = "dispatch_event" /\ Top.raised # {}
  /\ gil > 0

\* ---- C11
\* The operations that construct a gil_scoped_acquire (lines 55, 106, 193).
LockingOps == {"load_script", "reload_script", "dispatch_event"}

\* Number of calls in progress that hold an acquisition of their own.
LockingFrames ==
  Cardinality({i \in 1..Len(stack) : stack[i].op \in LockingOps})

\* C11 as stated: every public entry point, load_scripts included, holds an
\* acquisition of its own from entry to return, so the nesting depth of the
\* lock is the number of calls in progress.
C11_EveryEntryPointLocks == gil = Len(stack)

\* C11 as amended: load_script, reload_script and dispatch_event each hold
\* an acquisition of their own from entry to return and give it back on
\* every exit path; load_scripts takes none, so during its walk the lock is
\* held only inside each per-file load_script, and at its return the depth
\* is what it was at its entry.
C11_LockScoped == gil = LockingFrames

\* C11's case: load_scripts is between two entries of its walk and the lock
\* is not held.
C11_Witness ==
  /\ Len(stack) = 1 /\ Top.op = "load_scripts" /\ Top.pc = "loop"
  /\ Top.left < MaxWalk /\ Top.left > 0
  /\ gil = 0

\* ---- C12
\* C12 (cache-miss resolution): when a dispatch_event(E) that found no key
\* for E is about to return, it has visited every record of the registry
\* and invoked, once each and in iteration order, the handlers of the
\* records that expose E; the cache
\* has the key E exactly if there was such a record, and Cache[E] is then
\* those records in invocation order.
C12_MissResolution ==
  (HostReturning("dispatch_event") /\ ~Top.hit) =>
    /\ NamesOf(Top.visited) = iter_order
    /\ Top.invoked = ExpectedInvocations(Top)
    /\ Top.arg \in DOMAIN module_function_cache_ <=> Top.invoked # <<>>
    /\ Top.arg \in DOMAIN module_function_cache_
         => NamesOf(module_function_cache_[Top.arg]) = Top.invoked

\* ---- C13
\* TRUE when no element of the vector occurs in it twice.
NoRepeats(modules) ==
  \A i, j \in 1..Len(modules) : modules[i] = modules[j] => i = j

\* C13 (a cache-hit dispatch uses only the cached list): when a
\* dispatch_event(E) that found the key E is about to return, it has started
\* no traversal of the registry, has visited the records of Cache[E] in list
\* order, has invoked exactly those whose module exposes E, and has invoked
\* no record twice.
C13_HitUsesCachedList ==
  (HostReturning("dispatch_event") /\ Top.hit) =>
    /\ Top.traversals = 0
    /\ Top.visited = module_function_cache_[Top.arg]
    /\ Top.invoked = NamesOf(Exposing(module_function_cache_[Top.arg], Top.arg))
    /\ NoRepeats(Exposing(Top.visited, Top.arg))

\* ---- C14
\* A dispatch_event in progress that found its key with an empty vector.
EmptyHit ==
  /\ stack # <<>> /\ Top.op = "dispatch_event"
  /\ Top.hit /\ Top.snapshot = <<>>

\* C14 (once resolved, the key stays): no step removes a key from the cache,
\* whatever it does to the key's vector; and a dispatch_event that finds its
\* key with an empty vector invokes no handler, starts no traversal of the
\* registry and changes neither the registry nor the cache.
C14_KeyStays ==
  [][/\ DOMAIN module_function_cache_ \subseteq DOMAIN module_function_cache_'
     /\ EmptyHit' =>
          /\ stack'[Len(stack')].invoked = <<>>
          /\ stack'[Len(stack')].traversals = 0
     /\ EmptyHit =>
          UNCHANGED <<loaded_modules_, iter_order, module_function_cache_>>
    ]_vars

\* C14's case: a reload emptied the vector of an event, and a dispatch of
\* that event is about to return although a registered module exposes it.
C14_Witness ==
  /\ HostReturning("dispatch_event") /\ EmptyHit
  /\ module_function_cache_[Top.arg] = <<>>
  /\ \E n \in DOMAIN loaded_modules_ :
       hasattr(sys_modules, loaded_modules_[n], Top.arg)

\* ---- C15
\* Number of occurrences of record r in a vector.
Count(modules, r) ==
  Cardinality({i \in 1..Len(modules) : modules[i] = r})

\* Occurrences of r in the entry of event e, 0 when e has no key.
CountIn(cache, e, r) ==
  IF e \in DOMAIN cache THEN Count(cache[e], r) ELSE 0

\* TRUE for a step of the body of load_script or reload_script.
LoaderStep ==
  /\ stack # <<>> /\ Top.op \in {"load_script", "reload_script"}
  /\ Top.pc = "body"

\* C15 as stated (cache implies attribute at insertion): whenever a step
\* adds a record to the vector of an event, the record's module has the
\* attribute of that name in the state the step ends in; and a step of
\* load_script or reload_script leaves the set of keys as it was.
C15_AttributeAtInsertion ==
  [][/\ \A e \in DOMAIN module_function_cache_' :
          \A r \in Range(module_function_cache_'[e]) :
            CountIn(module_function_cache_', e, r)
                > CountIn(module_function_cache_, e, r)
              => hasattr(sys_modules', r, e)
     /\ LoaderStep =>
          DOMAIN module_function_cache_' = DOMAIN module_function_cache_
    ]_vars

\* TRUE when the step adds an occurrence of record r to the vector of e.
Added(e, r) ==
  CountIn(module_function_cache_', e, r) > CountIn(module_function_cache_, e, r)

\* C15 as amended: a step of load_script or reload_script adds a record to
\* the vector of an event only if the record's module has the attribute in
\* the state the step ends in, and leaves the set of keys as it was.  A
\* step of dispatch_event adds only the records of its valid_modules, to
\* the vector of its own event; a record enters valid_modules only if its
\* module had the attribute when the loop came to the record, which is
\* before the record's handler ran and before the vector is stored.
C15_AttributeWhenChecked ==
  [][/\ LoaderStep =>
          /\ DOMAIN module_function_cache_' = DOMAIN module_function_cache_
          /\ \A e \in DOMAIN module_function_cache_' :
               \A r \in Range(module_function_cache_'[e]) :
                 Added(e, r) => hasattr(sys_modules', r, e)
     /\ ~LoaderStep =>
          \A e \in DOMAIN module_function_cache_' :
            \A r \in Range(module_function_cache_'[e]) :
              Added(e, r) =>
                /\ Top.op = "dispatch_event" /\ Top.arg = e
                /\ module_function_cache_'[e] = Top.valid_modules
     /\ (stack # <<>> /\ Top.op = "dispatch_event"
            /\ Len(stack') = Len(stack)) =>
          LET after == stack'[Len(stack')]
          IN /\ after.pc = "handler" =>
                  hasattr(sys_modules, after.script, Top.arg)
             /\ after.valid_modules # Top.valid_modules =>
                  \E r \in Range(after.valid_modules) :
                    /\ after.valid_modules = Append(Top.valid_modules, r)
                    /\ IF Top.pc = "handler" THEN r = Top.script
                       ELSE hasattr(sys_modules, r, Top.arg)
    ]_vars

\* C15's case: load_script has just added its record to the vector of one
\* resolved event and not to the vector of another, which the module lacks.
C15_Witness ==
  /\ Returning("load_script") /\ Top.outcome = "loaded"
  /\ \E e1, e2 \in DOMAIN module_function_cache_ :
       /\ loaded_modules_[Top.arg] \in Range(module_function_cache_[e1])
       /\ loaded_modules_[Top.arg] \notin Range(module_function_cache_[e2])

\* ---- C16
\* The steps of a call that a handler made.
InnerStep ==
  \/ load_script_body
  \/ load_script_return
  \/ reload_script_body
  \/ reload_script_return
  \/ dispatch_event_handler
  \/ dispatch_event_handler_begin
  \/ dispatch_event_handler_end
  \/ dispatch_event_finish
  \/ dispatch_event_return

\* Acquisitions nest: the depth of the lock is the number of load_script,
\* reload_script and dispatch_event calls in progress, so a dispatch_event
\* holds the lock from its entry to its return; and a call made by a handler
\* always has a step to take.
C16_NestsAndProceeds ==
  /\ gil = LockingFrames
  /\ Len(stack) >= 2 => ENABLED InnerStep

\* When a handler is over, its dispatch_event still has to visit every
\* element it had yet to visit when the handler began, and on a miss none of
\* the modules it has visited already.
C16_OuterContinues ==
  (/\ stack # <<>> /\ Top.op = "dispatch_event" /\ Top.pc = "handler"
   /\ Len(stack') = Len(stack))
    => LET after == stack'[Len(stack')]
       IN /\ Range(Top.todo) \subseteq Range(after.todo)
          /\ ~Top.hit =>
               Range(after.todo) \cap Range(NamesOf(Top.visited)) = {}

\* C16 (reentrancy does not deadlock): a call that a handler makes back into
\* load_script, reload_script or dispatch_event acquires the lock its
\* dispatch_event already holds and runs to its return; the dispatch_event
\* holds the lock throughout, and when the handler is over it continues with
\* the handlers it had left.
C16_ReentrancyCompletes ==
  [](C16_NestsAndProceeds) /\ [][C16_OuterContinues]_vars

\* ---- C17
\* A reload_script whose name is not a key of the registry: at its lookup,
\* or past it and about to return.
ReloadOfUnknown ==
  /\ stack # <<>> /\ Top.op = "reload_script"
  /\ \/ Top.pc = "body" /\ Top.arg \notin DOMAIN loaded_modules_
     \/ Top.pc = "return" /\ Top.outcome = "not_loaded"

\* C17: every step of a reload_script(name) whose name is not a key of the
\* registry leaves the registry, every cache entry and the runtime's modules
\* unchanged; the call goes from its lookup straight to its return, having
\* logged once and called the runtime's reload not at all.
C17_ReloadOfUnknown ==
  [][ReloadOfUnknown =>
       /\ UNCHANGED <<loaded_modules_, iter_order, module_function_cache_,
                      sys_modules>>
       /\ Top.pc = "body" =>
            /\ Len(stack') = Len(stack)
            /\ stack'[Len(stack')].pc = "return"
            /\ stack'[Len(stack')].outcome = "not_loaded"
            /\ stack'[Len(stack')].logs = 1
            /\ stack'[Len(stack')].reloads = 0
       /\ Top.pc = "return" => stack' = Pop
    ]_vars

\* C17's case: with one module registered and cached, a reload_script of
\* another name is about to return.
C17_Witness ==
  /\ Returning("reload_script") /\ Top.outcome = "not_loaded"
  /\ loaded_modules_ # << >>
  /\ \E e \in DOMAIN module_function_cache_ : module_function_cache_[e] # <<>>

\* ---- C18
\* Positions in the stack of a load_scripts whose directory check failed.
MissingDirectory(stk) ==
  {i \in 1..Len(stk) :
     stk[i].op = "load_scripts" /\ stk[i].outcome = "no_directory"}

\* C18: a load_scripts whose path does not exist or is not a directory has
\* logged exactly one message and is about to return; nothing is called
\* from it, so no load_script runs within it; and its one step is its
\* return, which leaves the registry, the cache, the runtime's modules and
\* the lock as they were.
C18_MissingDirectory ==
  [][/\ \A i \in MissingDirectory(stack') :
          /\ i = Len(stack')
          /\ stack'[i].pc = "return"
          /\ stack'[i].logs = 1
     /\ MissingDirectory(stack) # {} =>
          /\ stack' = Pop
          /\ UNCHANGED <<loaded_modules_, iter_order, module_function_cache_,
                         sys_modules, gil, unlocked_calls>>
    ]_vars

\* C18's case: with a module registered and an event resolved, load_scripts
\* was called on a missing directory and is about to return.
C18_Witness ==
  /\ MissingDirectory(stack) # {}
  /\ loaded_modules_ # << >>
  /\ module_function_cache_ # << >>

\* ---- C19
\* TRUE while nothing has failed: no call in progress has caught an error of
\* an import or a reload, no handler has raised, and no load_script is
\* about to import a stem that is already registered.
NothingFailed ==
  \A i \in 1..Len(stack) :
    /\ stack[i].outcome # "error"
    /\ stack[i].raised = {}
    /\ ~ /\ stack[i].op = "load_script" /\ stack[i].pc = "body"
         /\ stack[i].arg \in DOMAIN loaded_modules_

\* The steps of the system that keep NothingFailed; a run of them is a run
\* in which no import or reload failed, no handler raised and no stem was
\* loaded twice.
NextClean == Next /\ NothingFailed'

SpecClean == Init /\ [][NextClean]_vars

\* Names of the registry's records whose module exposes event e.
RegistryExposing(e) ==
  {n \in DOMAIN loaded_modules_ : hasattr(sys_modules, loaded_modules_[n], e)}

\* C19 (cached dispatch is equivalent to uncached dispatch when nothing
\* fails): in every state of a run in which nothing failed, the modules of
\* the vector of every resolved event are the registry's modules that expose
\* the event, and a dispatch that found its key and is about to return has
\* invoked exactly the handlers of those modules.
C19_CachedEqualsUncached ==
  /\ \A e \in DOMAIN module_function_cache_ :
       CachedNames(module_function_cache_, e) = RegistryExposing(e)
  /\ (HostReturning("dispatch_event") /\ Top.hit)
       => Range(Top.invoked) = RegistryExposing(Top.arg)

\* C19's case: an event was resolved with one module, a second module
\* exposing it was loaded afterwards, and a dispatch that found the key has
\* invoked both and is about to return.
C19_Witness ==
  /\ HostReturning("dispatch_event") /\ Top.hit
  /\ Len(Top.invoked) = 2
  /\ NamesOf(module_function_cache_[Top.arg]) # iter_order

\* ---- C20
\* A dispatch_event in progress that found its key.
HitFrame(f) == f.op = "dispatch_event" /\ f.hit

\* C20 (a cache-hit dispatch iterates a snapshot): whatever the handlers of
\* a dispatch_event that found its key call, the records the dispatch has
\* visited followed by those it has yet to visit are the vector the key had
\* when the dispatch began; and no step of that dispatch itself changes the
\* cache, so what the calls of its handlers made of the vector is what the
\* key has when the dispatch returns.
C20_HitIteratesSnapshot ==
  [][/\ \A i \in 1..Len(stack') :
          HitFrame(stack'[i])
            => stack'[i].visited \o stack'[i].todo = stack'[i].snapshot
     /\ (stack # <<>> /\ HitFrame(Top))
          => module_function_cache_' = module_function_cache_
    ]_vars

\* C20's case: a dispatch that found two records under its key is about to
\* return; a handler of it called back, the key's vector is no longer what
\* it was, and the dispatch has visited the two records it began with.
C20_Witness ==
  /\ HostReturning("dispatch_event") /\ Top.hit
  /\ Top.calls > 0
  /\ Len(Top.snapshot) = 2
  /\ Top.visited = Top.snapshot
  /\ module_function_cache_[Top.arg] # Top.snapshot

====
